---- MODULE Spec2Model ----
(***************************************************************************)
(* State-machine model of the authnzerver admin and API-key actions:       *)
(*   actions/admin.py   edit_user, internal_toggle_user_lock,              *)
(*                      toggle_user_lock                                   *)
(*   actions/apikey.py  issue_new_apikey, verify_apikey                    *)
(* The auth DB is the state (users, sessions, apikeys tables).  Every      *)
(* handler runs on a worker process that owns its own connection; each     *)
(* statement sent to the DB is one step of that worker.                    *)
(***************************************************************************)
EXTENDS Integers, FiniteSets, Sequences, TLC

VARIABLES
    users,         \* users table: user_id -> row
    sessions,      \* sessions table: session_token -> row
    apikeys,       \* apikeys table: set of rows
    now,           \* datetime.utcnow()
    pc,            \* per worker: position inside the running handler
    req,           \* per worker: the payload of the running/last handler
    resp,          \* per worker: the dict returned by the handler
    session_info,  \* per worker: local session_info (auth_session_exists)
    rows,          \* per worker: local rows (result.fetchone())
    delres         \* per worker: outcome of auth_delete_sessions_userid

vars == <<users, sessions, apikeys, now, pc, req, resp, session_info, rows,
          delres>>

dbvars == <<users, sessions, apikeys, now>>

-----------------------------------------------------------------------------
(* Bounds of the model *)

MaxKeys == 2
MaxTime == 3

-----------------------------------------------------------------------------
(* Worker processes and request domains *)

Workers == {"w1", "w2"}

ActorIds == {1, 4}
TargetIds == {1, 2, 3, 4, 6}
EditTargetIds == {2, 3, 4, 6}
RoleStrings == {"superuser", "staff", "authenticated", "locked", "admin"}
Tokens == {"tok1", "tok4", "nosuch"}
LockActions == {"lock", "unlock"}

UpdateDicts ==
    { [full_name |-> "A", email |-> "a@x.org"],
      [full_name |-> "A", user_role |-> "superuser"],
      [is_active |-> FALSE, email_verified |-> TRUE],
      [user_role |-> "admin"],
      [created_on |-> 1] }

EditRequests ==
    [op : {"edit_user"}, user_id : ActorIds, user_role : RoleStrings,
     session_token : Tokens, target_userid : EditTargetIds,
     update_dict : UpdateDicts]

ToggleRequests ==
    [op : {"toggle_user_lock"}, user_id : ActorIds, user_role : RoleStrings,
     session_token : Tokens, target_userid : TargetIds,
     action : LockActions]

InternalRequests ==
    [op : {"internal_toggle_user_lock"}, target_userid : TargetIds,
     action : LockActions]

DeleteOutcomes == {"deleted", "failed", "raised"}

\* what the execute of an insert can do: store the row, or raise
InsertOutcomes == {"inserted", "raised"}

IpAddresses == {"ip1", "ip2"}
UserAgents == {"ua1", "ua2"}

IssueRequests ==
    [op : {"issue_new_apikey"}, user_id : ActorIds,
     user_role : {"staff", "locked"}, ip_address : IpAddresses,
     user_agent : UserAgents, session_token : {"tok4", "nosuch"},
     expires_days : {0, 1}, not_valid_before : {0, 1}]

VerifyRequests ==
    [op : {"verify_apikey"}, tkn : 1..(MaxKeys + 1), uid : ActorIds,
     rol : {"staff", "locked"}, exp : {"0", ToString(MaxTime + 1)}]

\* list_users payloads: user_id is None (<<>>) or one id (<<i>>)
ListRequests ==
    [op : {"list_users"}, user_id : {<<>>} \cup {<<i>> : i \in TargetIds}]

\* edits of user 4 by the superuser, for the runs with two workers
PairEditRequests ==
    [op : {"edit_user"}, user_id : {1}, user_role : {"superuser"},
     session_token : {"tok1"}, target_userid : {4},
     update_dict : UpdateDicts]

\* requests about user 4 and the keys of user 4, for the runs in which
\* the owner of a key is edited and locked
OwnerIssueRequests ==
    [op : {"issue_new_apikey"}, user_id : {4},
     user_role : {"staff", "locked"}, ip_address : {"ip1"},
     user_agent : {"ua1"}, session_token : {"tok4"},
     expires_days : {0, 1}, not_valid_before : {0}]

OwnerVerifyRequests ==
    [op : {"verify_apikey"}, tkn : 1..MaxKeys, uid : {4},
     rol : {"staff", "locked"}, exp : {"0"}]

OwnerEditRequests ==
    [op : {"edit_user"}, user_id : {1}, user_role : {"superuser"},
     session_token : {"tok1"}, target_userid : {4},
     update_dict : {[full_name |-> "A", user_role |-> "superuser"]}]

OwnerListRequests == [op : {"list_users"}, user_id : {<<4>>}]

KeyLockRequests ==
    [op : {"internal_toggle_user_lock"}, target_userid : {4},
     action : LockActions]

-----------------------------------------------------------------------------
(* Messages returned by the handlers *)

MsgReserved == "Editing anonymous/locked user accounts not allowed."
MsgNoSession ==
    "User session info not available for this user edit attempt."
MsgSuNoSession ==
    "Superuser session info not available for this user edit attempt."
MsgExtra == "extra elements in update_dict not allowed"
MsgUnknownRole == "unknown role change request in update_dict"
MsgEditOther ==
    "user_id or session info not available for this user edit attempt."
MsgEditOk == "User update successful."
MsgListOk == "User look up successful."
MsgEditFail == "User update failed."
MsgLockOther ==
    "user_id or session info not available for this user lock toggle attempt."
MsgLockOk == "User lock toggle successful."
MsgLockFail == "User lock toggle failed."

MsgIssueNoSession == "Invalid session token for password reset request."
MsgIssueMismatch ==
    "DB session user_id, ip_address, user_agent, user_role does not match provided session info."
MsgIssueOk == "API key generated successfully."
MsgVerifyOk == "API key verified successfully."
MsgVerifyFail == "API key could not be verified."

\* stands for an exception that leaves the handler: no response dict
MsgRaised == "unhandled exception"

NoReq == [op |-> "none"]
NoResp == [success |-> FALSE, user_info |-> <<>>, messages |-> "none"]

Failure(msg) == [success |-> FALSE, user_info |-> <<>>, messages |-> msg]
Success(row, msg) ==
    [success |-> TRUE, user_info |-> <<row>>, messages |-> msg]

-----------------------------------------------------------------------------
(* The auth DB after construction *)

InitUsers ==
    [i \in {1, 2, 3, 4} |->
        CASE i = 1 -> [user_id |-> 1, full_name |-> "root", email |-> "r@x.org",
                       is_active |-> TRUE, user_role |-> "superuser",
                       email_verified |-> TRUE]
          [] i = 2 -> [user_id |-> 2, full_name |-> "anon", email |-> "n@x.org",
                       is_active |-> TRUE, user_role |-> "anonymous",
                       email_verified |-> TRUE]
          [] i = 3 -> [user_id |-> 3, full_name |-> "dummy", email |-> "d@x.org",
                       is_active |-> FALSE, user_role |-> "locked",
                       email_verified |-> TRUE]
          [] i = 4 -> [user_id |-> 4, full_name |-> "S", email |-> "s@x.org",
                       is_active |-> TRUE, user_role |-> "staff",
                       email_verified |-> FALSE]]

InitSessions ==
    [t \in {"tok1", "tok4"} |->
        IF t = "tok1"
        THEN [user_id |-> 1, ip_address |-> "ip1", user_agent |-> "ua1"]
        ELSE [user_id |-> 4, ip_address |-> "ip1", user_agent |-> "ua1"]]

-----------------------------------------------------------------------------
(* Helpers of the handlers *)

ReservedIdsOnlyLocked == {3}

ReservedIds == {2, 3}

SelfEditableWithRole == {"full_name", "email", "user_role"}

SelfEditable == {"full_name", "email"}

SuperuserEditableWithCreated ==
    {"full_name", "email", "is_active", "user_role", "email_verified",
     "created_on"}

SuperuserEditable ==
    {"full_name", "email", "is_active", "user_role", "email_verified"}

ValidRolesWithAdmin ==
    {"superuser", "staff", "authenticated", "locked", "admin"}

ValidRoles == {"superuser", "staff", "authenticated", "locked"}

\* auth_session_exists: the sessions row joined with the users row of its
\* user_id; <<>> when there is no such session.
SessionLookup(tok) ==
    IF tok \in DOMAIN sessions /\ sessions[tok].user_id \in DOMAIN users
    THEN <<[user_id |-> sessions[tok].user_id,
            user_role |-> users[sessions[tok].user_id].user_role,
            is_active |-> users[sessions[tok].user_id].is_active,
            ip_address |-> sessions[tok].ip_address,
            user_agent |-> sessions[tok].user_agent]>>
    ELSE <<>>

SessionMatchesNoRole(si, user_id, user_role) ==
    /\ si # <<>>
    /\ si[1].is_active = TRUE
    /\ si[1].user_id = user_id

\* session_info and success and is_active is True and user_id == user_id
\* and user_role == user_role
SessionMatches(si, user_id, user_role) ==
    /\ si # <<>>
    /\ si[1].is_active = TRUE
    /\ si[1].user_id = user_id
    /\ si[1].user_role = user_role

SelfEditCaseAnyTarget(r) == r.user_role \in {"authenticated", "staff"}

\* the case where the user updates their own info
SelfEditCase(r) ==
    r.target_userid = r.user_id /\ r.user_role \in {"authenticated", "staff"}

SuperuserOrStaffCase(r) == r.user_role \in {"superuser", "staff"}

\* the case where the superuser updates a user's info (or their own info)
SuperuserCase(r) == r.user_role = "superuser"

EditCheckFieldsFirst(r, si) ==
    IF r.target_userid \in ReservedIds THEN MsgReserved
    ELSE IF SelfEditCase(r)
    THEN IF DOMAIN r.update_dict \ SelfEditable # {}
         THEN MsgExtra
         ELSE IF SessionMatches(si, r.user_id, r.user_role)
              THEN "ok"
              ELSE MsgNoSession
    ELSE IF SuperuserCase(r)
    THEN IF DOMAIN r.update_dict \ SuperuserEditable # {}
         THEN MsgExtra
         ELSE IF "user_role" \in DOMAIN r.update_dict
                 /\ r.update_dict.user_role \notin ValidRoles
              THEN MsgUnknownRole
              ELSE IF SessionMatches(si, r.user_id, r.user_role)
                   THEN "ok"
                   ELSE MsgSuNoSession
    ELSE MsgEditOther

\* the checks of edit_user, in the order of the code: "ok" or the message
EditCheck(r, si) ==
    IF r.target_userid \in ReservedIds THEN MsgReserved
    ELSE IF SelfEditCase(r)
    THEN IF SessionMatches(si, r.user_id, r.user_role)
         THEN IF DOMAIN r.update_dict \ SelfEditable # {}
              THEN MsgExtra
              ELSE "ok"
         ELSE MsgNoSession
    ELSE IF SuperuserCase(r)
    THEN IF SessionMatches(si, r.user_id, r.user_role)
         THEN IF DOMAIN r.update_dict \ SuperuserEditable # {}
              THEN MsgExtra
              ELSE IF "user_role" \in DOMAIN r.update_dict
                      /\ r.update_dict.user_role \notin ValidRoles
                   THEN MsgUnknownRole
                   ELSE "ok"
         ELSE MsgSuNoSession
    ELSE MsgEditOther

\* the checks of toggle_user_lock
ToggleCheck(r, si) ==
    IF r.target_userid \in ReservedIds THEN MsgReserved
    ELSE IF SuperuserCase(r)
    THEN IF SessionMatches(si, r.user_id, r.user_role)
         THEN "ok"
         ELSE MsgSuNoSession
    ELSE MsgLockOther

InternalCheckNoReserved(r) == "ok"

\* the checks of internal_toggle_user_lock
InternalCheck(r) ==
    IF r.target_userid \in ReservedIds THEN MsgReserved ELSE "ok"

ApplyUpdateNoWhere(tbl, target, d) ==
    [i \in DOMAIN tbl |->
        IF target \in DOMAIN tbl
        THEN [f \in DOMAIN tbl[i] |->
                 IF f \in DOMAIN d THEN d[f] ELSE tbl[i][f]]
        ELSE tbl[i]]

\* users.update().where(user_id == target).values(update_dict)
ApplyUpdate(tbl, target, d) ==
    [i \in DOMAIN tbl |->
        IF i = target
        THEN [f \in DOMAIN tbl[i] |->
                 IF f \in DOMAIN d THEN d[f] ELSE tbl[i][f]]
        ELSE tbl[i]]

\* the unique constraint on users.email
EmailConflict(tbl, target, d) ==
    /\ target \in DOMAIN tbl
    /\ "email" \in DOMAIN d
    /\ \E i \in DOMAIN tbl : i # target /\ tbl[i].email = d.email

\* select user_id, user_role, full_name, email, is_active where user_id ==
\* target; fetchone()
SelectUser(tbl, target) ==
    IF target \in DOMAIN tbl
    THEN <<[user_id |-> tbl[target].user_id,
            user_role |-> tbl[target].user_role,
            full_name |-> tbl[target].full_name,
            email |-> tbl[target].email,
            is_active |-> tbl[target].is_active]>>
    ELSE <<>>

RECURSIVE OrderByDesc(_)
OrderByDesc(ids) ==
    IF ids = {} THEN <<>>
    ELSE LET m == CHOOSE x \in ids : \A y \in ids : x >= y
         IN  <<m>> \o OrderByDesc(ids \ {m})

\* order_by(asc(users.c.user_id)): the ids in ascending order
RECURSIVE OrderByAsc(_)
OrderByAsc(ids) ==
    IF ids = {} THEN <<>>
    ELSE LET m == CHOOSE x \in ids : \A y \in ids : x <= y
         IN  <<m>> \o OrderByAsc(ids \ {m})

\* the select of list_users: all rows, or where user_id == the given id;
\* fetchall()
ListSelect(tbl, user_id) ==
    LET ids == IF user_id = <<>>
               THEN DOMAIN tbl
               ELSE {i \in DOMAIN tbl : tbl[i].user_id = user_id[1]}
        s == OrderByAsc(ids)
    IN  [n \in 1..Len(s) |->
           [user_id |-> tbl[s[n]].user_id,
            full_name |-> tbl[s[n]].full_name,
            email |-> tbl[s[n]].email,
            is_active |-> tbl[s[n]].is_active,
            user_role |-> tbl[s[n]].user_role]]

LockUpdateDictKeepRole(action) ==
    IF action = "lock"
    THEN [is_active |-> FALSE, user_role |-> "locked"]
    ELSE [is_active |-> TRUE]

\* update_dict of internal_toggle_user_lock
LockUpdateDict(action) ==
    IF action = "lock"
    THEN [is_active |-> FALSE, user_role |-> "locked"]
    ELSE [is_active |-> TRUE, user_role |-> "authenticated"]

\* auth_delete_sessions_userid(user_id, keep_current_session=False)
DeleteSessions(tbl, uid) ==
    [t \in {s \in DOMAIN tbl : tbl[s].user_id # uid} |-> tbl[t]]

SerializeRowsUnchecked(r, okmsg, failmsg) ==
    [success |-> TRUE, user_info |-> r, messages |-> okmsg]

\* try: dict(rows) ... except: failure
SerializeRows(r, okmsg, failmsg) ==
    IF r # <<>> THEN Success(r[1], okmsg) ELSE Failure(failmsg)

\* timedelta(days=1), in ticks of the model clock
DayTicks == 3

\* secrets.token_urlsafe(32): a token no stored key has
NewToken(keys) == Cardinality(keys) + 1

IssueCheckWindow(r, si) ==
    IF si = <<>> THEN MsgIssueNoSession
    ELSE IF /\ si[1].user_id = r.user_id
            /\ si[1].ip_address = r.ip_address
            /\ si[1].user_agent = r.user_agent
            /\ si[1].user_role = r.user_role
            /\ r.not_valid_before < r.expires_days * DayTicks
         THEN "ok"
         ELSE MsgIssueMismatch

\* the checks of issue_new_apikey: "ok" or the message
IssueCheck(r, si) ==
    IF si = <<>> THEN MsgIssueNoSession
    ELSE IF /\ si[1].user_id = r.user_id
            /\ si[1].ip_address = r.ip_address
            /\ si[1].user_agent = r.user_agent
            /\ si[1].user_role = r.user_role
         THEN "ok"
         ELSE MsgIssueMismatch

\* the row issue_new_apikey inserts into the apikeys table
ApikeyRow(r, tkn, t) ==
    [apikey |-> tkn, issued |-> t,
     expires |-> t + r.expires_days * DayTicks,
     not_valid_before |-> t + r.not_valid_before,
     user_id |-> r.user_id, user_role |-> r.user_role,
     session_token |-> r.session_token]

\* datetime.isoformat(): the text of a time stamp
IsoFormat(t) == ToString(t)

\* the apikey_dict issue_new_apikey returns
ApikeyDict(r, tkn, t) ==
    [uid |-> r.user_id, rol |-> r.user_role, clt |-> r.user_agent,
     ipa |-> r.ip_address, tkn |-> tkn, iat |-> IsoFormat(t),
     nbf |-> IsoFormat(t + r.not_valid_before),
     exp |-> IsoFormat(t + r.expires_days * DayTicks)]

VerifySelectIssuedAfter(keys, d, t) ==
    {k \in keys : /\ k.apikey = d.tkn
                  /\ k.user_id = d.uid
                  /\ k.user_role = d.rol
                  /\ k.expires > t
                  /\ k.issued > t
                  /\ k.not_valid_before < t}

VerifySelectNoRole(keys, d, t) ==
    {k \in keys : /\ k.apikey = d.tkn
                  /\ k.user_id = d.uid
                  /\ k.expires > t
                  /\ k.issued < t
                  /\ k.not_valid_before < t}

VerifySelectExpiresInclusive(keys, d, t) ==
    {k \in keys : /\ k.apikey = d.tkn
                  /\ k.user_id = d.uid
                  /\ k.user_role = d.rol
                  /\ k.expires >= t
                  /\ k.issued < t
                  /\ k.not_valid_before < t}

VerifySelectAnyToken(keys, d, t) ==
    {k \in keys : /\ k.user_id = d.uid
                  /\ k.user_role = d.rol
                  /\ k.expires > t
                  /\ k.issued < t
                  /\ k.not_valid_before < t}

VerifySelectClaimedExp(keys, d, t) ==
    {k \in keys : /\ k.apikey = d.tkn
                  /\ k.user_id = d.uid
                  /\ k.user_role = d.rol
                  /\ IsoFormat(k.expires) = d.exp
                  /\ k.issued < t
                  /\ k.not_valid_before < t}

\* the select of verify_apikey
VerifySelect(keys, d, t) ==
    {k \in keys : /\ k.apikey = d.tkn
                  /\ k.user_id = d.uid
                  /\ k.user_role = d.rol
                  /\ k.expires > t
                  /\ k.issued < t
                  /\ k.not_valid_before < t}

-----------------------------------------------------------------------------
(* Handler steps *)

Respond(w, r, rsp) ==
    /\ pc' = [pc EXCEPT ![w] = "done"]
    /\ req' = [req EXCEPT ![w] = r]
    /\ resp' = [resp EXCEPT ![w] = rsp]

Goto(w, r, label) ==
    /\ pc' = [pc EXCEPT ![w] = label]
    /\ req' = [req EXCEPT ![w] = r]
    /\ resp' = resp

\* edit_user up to the update: payload checks and the session look-up
EditUserBegin(w, r) ==
    /\ pc[w] = "idle"
    /\ LET si == IF r.target_userid \notin ReservedIds
                    /\ (SelfEditCase(r) \/ SuperuserCase(r))
                 THEN SessionLookup(r.session_token)
                 ELSE <<>>
           c == EditCheck(r, si)
       IN  /\ session_info' = [session_info EXCEPT ![w] = si]
           /\ IF c = "ok"
              THEN Goto(w, r, "edit_update")
              ELSE Respond(w, r, Failure(c))
    /\ UNCHANGED <<dbvars, rows, delres>>

\* edit_user: execute the update
EditUserUpdate(w) ==
    /\ pc[w] = "edit_update"
    /\ IF EmailConflict(users, req[w].target_userid, req[w].update_dict)
       THEN /\ Respond(w, req[w], Failure(MsgEditFail))
            /\ UNCHANGED users
       ELSE /\ users' = ApplyUpdate(users, req[w].target_userid,
                                    req[w].update_dict)
            /\ Goto(w, req[w], "edit_select")
    /\ UNCHANGED <<sessions, apikeys, now, session_info, rows, delres>>

\* edit_user: check the update and return new values
EditUserSelect(w) ==
    /\ pc[w] = "edit_select"
    /\ LET r == SelectUser(users, req[w].target_userid)
       IN  /\ rows' = [rows EXCEPT ![w] = r]
           /\ Respond(w, req[w], SerializeRows(r, MsgEditOk, MsgEditFail))
    /\ UNCHANGED <<dbvars, session_info, delres>>

\* toggle_user_lock up to the call of internal_toggle_user_lock
ToggleUserLockBegin(w, r) ==
    /\ pc[w] = "idle"
    /\ LET si == IF r.target_userid \notin ReservedIds /\ SuperuserCase(r)
                 THEN SessionLookup(r.session_token)
                 ELSE <<>>
           c == ToggleCheck(r, si)
       IN  /\ session_info' = [session_info EXCEPT ![w] = si]
           /\ IF c = "ok" /\ InternalCheck(r) = "ok"
              THEN Goto(w, r, "lock_update")
              ELSE Respond(w, r, Failure(c))
    /\ UNCHANGED <<dbvars, rows, delres>>

\* internal_toggle_user_lock up to the update
InternalToggleUserLockBegin(w, r) ==
    /\ pc[w] = "idle"
    /\ LET c == InternalCheck(r)
       IN  IF c = "ok"
           THEN Goto(w, r, "lock_update")
           ELSE Respond(w, r, Failure(c))
    /\ UNCHANGED <<dbvars, session_info, rows, delres>>

\* internal_toggle_user_lock: execute the update
LockUpdate(w) ==
    /\ pc[w] = "lock_update"
    /\ users' = ApplyUpdate(users, req[w].target_userid,
                            LockUpdateDict(req[w].action))
    /\ Goto(w, req[w], "lock_select")
    /\ UNCHANGED <<sessions, apikeys, now, session_info, rows, delres>>

LockSelectAlwaysDelete(w) ==
    /\ pc[w] = "lock_select"
    /\ rows' = [rows EXCEPT ![w] = SelectUser(users, req[w].target_userid)]
    /\ Goto(w, req[w], "lock_delete")
    /\ UNCHANGED <<dbvars, session_info, delres>>

\* internal_toggle_user_lock: check the update; 'unlock' returns here
LockSelect(w) ==
    /\ pc[w] = "lock_select"
    /\ LET r == SelectUser(users, req[w].target_userid)
       IN  /\ rows' = [rows EXCEPT ![w] = r]
           /\ IF req[w].action = "lock"
              THEN Goto(w, req[w], "lock_delete")
              ELSE Respond(w, req[w], SerializeRows(r, MsgLockOk, MsgLockFail))
    /\ UNCHANGED <<dbvars, session_info, delres>>

LockDeleteSessionsRollback(w, outcome) ==
    /\ pc[w] = "lock_delete"
    /\ delres' = [delres EXCEPT ![w] = outcome]
    /\ sessions' = IF outcome = "deleted"
                   THEN DeleteSessions(sessions, req[w].target_userid)
                   ELSE sessions
    /\ users' = IF outcome = "deleted"
                THEN users
                ELSE ApplyUpdate(users, req[w].target_userid,
                                 [is_active |-> TRUE,
                                  user_role |-> "authenticated"])
    /\ IF outcome = "raised"
       THEN Respond(w, req[w], Failure(MsgLockFail))
       ELSE Respond(w, req[w], SerializeRows(rows[w], MsgLockOk, MsgLockFail))
    /\ UNCHANGED <<apikeys, now, session_info, rows>>

LockDeleteSessionsRevokesKeys(w, outcome) ==
    /\ pc[w] = "lock_delete"
    /\ delres' = [delres EXCEPT ![w] = outcome]
    /\ sessions' = IF outcome = "deleted"
                   THEN DeleteSessions(sessions, req[w].target_userid)
                   ELSE sessions
    /\ apikeys' = {k \in apikeys : k.user_id # req[w].target_userid}
    /\ IF outcome = "raised"
       THEN Respond(w, req[w], Failure(MsgLockFail))
       ELSE Respond(w, req[w], SerializeRows(rows[w], MsgLockOk, MsgLockFail))
    /\ UNCHANGED <<users, now, session_info, rows>>

\* internal_toggle_user_lock: delete all the sessions belonging to this
\* user, then return.  The call can delete the sessions, return a failure
\* dict (which the handler does not look at) or raise.
LockDeleteSessions(w, outcome) ==
    /\ pc[w] = "lock_delete"
    /\ delres' = [delres EXCEPT ![w] = outcome]
    /\ sessions' = IF outcome = "deleted"
                   THEN DeleteSessions(sessions, req[w].target_userid)
                   ELSE sessions
    /\ IF outcome = "raised"
       THEN Respond(w, req[w], Failure(MsgLockFail))
       ELSE Respond(w, req[w], SerializeRows(rows[w], MsgLockOk, MsgLockFail))
    /\ UNCHANGED <<users, apikeys, now, session_info, rows>>

\* list_users
ListUsers(w, r) ==
    /\ pc[w] = "idle"
    /\ Respond(w, r, [success |-> TRUE,
                      user_info |-> ListSelect(users, r.user_id),
                      messages |-> MsgListOk])
    /\ UNCHANGED <<dbvars, session_info, rows, delres>>

\* issue_new_apikey up to the generation of the key: check the session
IssueNewApikeyBegin(w, r) ==
    /\ pc[w] = "idle"
    /\ LET si == SessionLookup(r.session_token)
           c == IssueCheck(r, si)
       IN  /\ session_info' = [session_info EXCEPT ![w] = si]
           /\ IF c = "ok"
              THEN /\ Cardinality(apikeys) < MaxKeys
                   /\ Goto(w, r, "issue_insert")
              ELSE Respond(w, r, [success |-> FALSE, apikey |-> <<>>,
                                  messages |-> c])
    /\ UNCHANGED <<dbvars, rows, delres>>

IssueNewApikeyInsertSwallows(w, outcome) ==
    /\ pc[w] = "issue_insert"
    /\ LET tkn == NewToken(apikeys)
       IN  /\ apikeys' = IF outcome = "inserted"
                         THEN apikeys \cup {ApikeyRow(req[w], tkn, now)}
                         ELSE apikeys
           /\ Respond(w, req[w],
                      [success |-> TRUE,
                       apikey |-> <<ApikeyDict(req[w], tkn, now)>>,
                       messages |-> MsgIssueOk])
    /\ UNCHANGED <<users, sessions, now, session_info, rows, delres>>

\* issue_new_apikey: generate the key, store it and return it.  The three
\* datetime.utcnow() calls read the clock within one step.  The insert is
\* not inside a try: when the execute raises, the exception leaves the
\* handler and the caller gets no response dict and no key.
IssueNewApikeyInsert(w, outcome) ==
    /\ pc[w] = "issue_insert"
    /\ LET tkn == NewToken(apikeys)
       IN  IF outcome = "inserted"
           THEN /\ apikeys' = apikeys \cup {ApikeyRow(req[w], tkn, now)}
                /\ Respond(w, req[w],
                           [success |-> TRUE,
                            apikey |-> <<ApikeyDict(req[w], tkn, now)>>,
                            messages |-> MsgIssueOk])
           ELSE /\ apikeys' = apikeys
                /\ Respond(w, req[w],
                           [success |-> FALSE, apikey |-> <<>>,
                            messages |-> MsgRaised])
    /\ UNCHANGED <<users, sessions, now, session_info, rows, delres>>

VerifyApikeyTellsExpired(w, r) ==
    /\ pc[w] = "idle"
    /\ IF VerifySelect(apikeys, r, now) # {}
       THEN Respond(w, r, [success |-> TRUE, messages |-> MsgVerifyOk])
       ELSE IF \E k \in apikeys : k.apikey = r.tkn /\ k.expires <= now
            THEN Respond(w, r, [success |-> FALSE,
                                messages |-> "API key expired."])
            ELSE Respond(w, r, [success |-> FALSE,
                                messages |-> MsgVerifyFail])
    /\ UNCHANGED <<dbvars, session_info, rows, delres>>

\* verify_apikey: the select with the clock of the request, then the
\* response.  The three datetime.utcnow() calls of the select read the
\* clock within one step.
VerifyApikey(w, r) ==
    /\ pc[w] = "idle"
    /\ IF VerifySelect(apikeys, r, now) # {}
       THEN Respond(w, r, [success |-> TRUE, messages |-> MsgVerifyOk])
       ELSE Respond(w, r, [success |-> FALSE, messages |-> MsgVerifyFail])
    /\ UNCHANGED <<dbvars, session_info, rows, delres>>

\* the clock advances
Tick ==
    /\ now < MaxTime
    /\ now' = now + 1
    /\ UNCHANGED <<users, sessions, apikeys, pc, req, resp, session_info,
                   rows, delres>>

\* the handler has returned; the worker takes the next request
Return(w) ==
    /\ pc[w] = "done"
    /\ pc' = [pc EXCEPT ![w] = "idle"]
    /\ req' = [req EXCEPT ![w] = NoReq]
    /\ resp' = [resp EXCEPT ![w] = NoResp]
    /\ session_info' = [session_info EXCEPT ![w] = <<>>]
    /\ rows' = [rows EXCEPT ![w] = <<>>]
    /\ delres' = [delres EXCEPT ![w] = "none"]
    /\ UNCHANGED dbvars

-----------------------------------------------------------------------------
(* Specification of the admin actions, one worker *)

Init ==
    /\ users = InitUsers
    /\ sessions = InitSessions
    /\ apikeys = {}
    /\ now = 0
    /\ pc = [w \in Workers |-> "idle"]
    /\ req = [w \in Workers |-> NoReq]
    /\ resp = [w \in Workers |-> NoResp]
    /\ session_info = [w \in Workers |-> <<>>]
    /\ rows = [w \in Workers |-> <<>>]
    /\ delres = [w \in Workers |-> "none"]

AdminStep(w) ==
    \/ pc[w] = "idle" /\ \E r \in EditRequests : EditUserBegin(w, r)
    \/ EditUserUpdate(w)
    \/ EditUserSelect(w)
    \/ pc[w] = "idle" /\ \E r \in ToggleRequests : ToggleUserLockBegin(w, r)
    \/ \E r \in InternalRequests : InternalToggleUserLockBegin(w, r)
    \/ LockUpdate(w)
    \/ LockSelect(w)
    \/ \E o \in DeleteOutcomes : LockDeleteSessions(w, o)
    \/ pc[w] = "idle" /\ \E r \in ListRequests : ListUsers(w, r)
    \/ Return(w)

Next == AdminStep("w1")

Spec == Init /\ [][Next]_vars

(* Specification of the API key actions next to account locking *)

KeyStep(w) ==
    \/ pc[w] = "idle" /\ \E r \in IssueRequests : IssueNewApikeyBegin(w, r)
    \/ \E o \in InsertOutcomes : IssueNewApikeyInsert(w, o)
    \/ pc[w] = "idle" /\ \E r \in VerifyRequests : VerifyApikey(w, r)
    \/ \E r \in KeyLockRequests : InternalToggleUserLockBegin(w, r)
    \/ LockUpdate(w)
    \/ LockSelect(w)
    \/ \E o \in DeleteOutcomes : LockDeleteSessions(w, o)
    \/ Return(w)

NextKey == KeyStep("w1") \/ Tick

SpecKey == Init /\ [][NextKey]_vars

(* Specification of the API key actions alone: keys are issued and verified
   while the clock advances *)

TokenStep(w) ==
    \/ pc[w] = "idle" /\ \E r \in IssueRequests : IssueNewApikeyBegin(w, r)
    \/ \E o \in InsertOutcomes : IssueNewApikeyInsert(w, o)
    \/ pc[w] = "idle" /\ \E r \in VerifyRequests : VerifyApikey(w, r)
    \/ Return(w)

NextToken == TokenStep("w1") \/ Tick

SpecToken == Init /\ [][NextToken]_vars

(* Specification of two workers that edit and lock the same user: every
   worker has its own connection and every statement commits on its own *)

PairStep(w) ==
    \/ pc[w] = "idle" /\ \E r \in PairEditRequests : EditUserBegin(w, r)
    \/ EditUserUpdate(w)
    \/ EditUserSelect(w)
    \/ \E r \in KeyLockRequests : InternalToggleUserLockBegin(w, r)
    \/ LockUpdate(w)
    \/ LockSelect(w)
    \/ \E o \in DeleteOutcomes : LockDeleteSessions(w, o)
    \/ Return(w)

NextPair == \E w \in Workers : PairStep(w)

SpecPair == Init /\ [][NextPair]_vars

(* Specification of the API keys of a user whose account is edited and
   locked while the clock advances *)

OwnerStep(w) ==
    \/ pc[w] = "idle"
       /\ \E r \in OwnerIssueRequests : IssueNewApikeyBegin(w, r)
    \/ \E o \in InsertOutcomes : IssueNewApikeyInsert(w, o)
    \/ pc[w] = "idle" /\ \E r \in OwnerVerifyRequests : VerifyApikey(w, r)
    \/ pc[w] = "idle" /\ \E r \in OwnerEditRequests : EditUserBegin(w, r)
    \/ EditUserUpdate(w)
    \/ EditUserSelect(w)
    \/ \E r \in KeyLockRequests : InternalToggleUserLockBegin(w, r)
    \/ LockUpdate(w)
    \/ LockSelect(w)
    \/ \E o \in DeleteOutcomes : LockDeleteSessions(w, o)
    \/ pc[w] = "idle" /\ \E r \in OwnerListRequests : ListUsers(w, r)
    \/ Return(w)

NextOwner == OwnerStep("w1") \/ Tick

SpecOwner == Init /\ [][NextOwner]_vars

TypeOK ==
    /\ DOMAIN users = {1, 2, 3, 4}
    /\ DOMAIN sessions \subseteq {"tok1", "tok4"}
    /\ \A w \in Workers : pc[w] \in {"idle", "edit_update", "edit_select",
                                     "lock_update", "lock_select",
                                     "lock_delete", "issue_insert",
                                     "done"}

-----------------------------------------------------------------------------
(* Vocabulary of the properties *)

LockOps == {"toggle_user_lock", "internal_toggle_user_lock"}

AdminOps == {"edit_user"} \cup LockOps

PrivilegedFields == {"is_active", "user_role", "email_verified"}

\* the step in which worker w takes a request
Starts(w) == pc[w] = "idle" /\ pc'[w] # "idle"

\* that step ends the request with a failure
Denied(w) == pc'[w] = "done" /\ resp'[w].success = FALSE

\* the sessions table holds tok, bound to uid, and the account of uid is
\* active and holds the role
LiveSession(tok, uid, role) ==
    /\ tok \in DOMAIN sessions
    /\ sessions[tok].user_id = uid
    /\ uid \in DOMAIN users
    /\ users[uid].is_active = TRUE
    /\ users[uid].user_role = role

\* the account row of uid is in the state a lock leaves it in
IsLocked(uid) ==
    /\ uid \in DOMAIN users
    /\ users[uid].is_active = FALSE
    /\ users[uid].user_role = "locked"

SessionsOf(uid) == {t \in DOMAIN sessions : sessions[t].user_id = uid}

-----------------------------------------------------------------------------
(* Properties *)

\* C1: the rows of user_id 2 and 3 keep their initial values in every
\* reachable state, and every edit_user, toggle_user_lock and
\* internal_toggle_user_lock request that targets 2 or 3 fails at once and
\* leaves the users table unchanged, whatever actor, role and session.
C1_ReservedRowsImmutable ==
    [][/\ users'[2] = InitUsers[2]
       /\ users'[3] = InitUsers[3]
       /\ \A w \in Workers :
            (/\ Starts(w)
             /\ req'[w].op \in AdminOps
             /\ req'[w].target_userid \in {2, 3})
            => (Denied(w) /\ users' = users)]_vars

\* a superuser with a live session was refused the lock of user 3
C1_Witness ==
    /\ pc["w1"] = "done"
    /\ req["w1"].op = "toggle_user_lock"
    /\ req["w1"].target_userid = 3
    /\ req["w1"].action = "lock"
    /\ req["w1"].user_id = 1
    /\ req["w1"].user_role = "superuser"
    /\ LiveSession("tok1", 1, "superuser")
    /\ req["w1"].session_token = "tok1"
    /\ resp["w1"].success = FALSE
    /\ resp["w1"].messages = MsgReserved

\* C2: an edit_user request whose user_role is not superuser and that names
\* is_active, user_role or email_verified fails; an edit that reaches the
\* update with a non-superuser role names only full_name and email and
\* changes no row's is_active, user_role or email_verified.
C2_NoPrivilegedFieldsForNonSuperuser ==
    [][\A w \in Workers :
         /\ (/\ Starts(w)
             /\ req'[w].op = "edit_user"
             /\ req'[w].user_role # "superuser"
             /\ DOMAIN req'[w].update_dict \cap PrivilegedFields # {})
            => (Denied(w) /\ users' = users)
         /\ (/\ pc'[w] # pc[w]
             /\ req[w].op = "edit_user"
             /\ req[w].user_role # "superuser")
            => \A i \in DOMAIN users :
                  /\ users'[i].is_active = users[i].is_active
                  /\ users'[i].user_role = users[i].user_role
                  /\ users'[i].email_verified = users[i].email_verified]_vars

\* the scenario of the specification: staff, own record, live session,
\* {full_name, user_role: superuser}
C2_Witness ==
    /\ pc["w1"] = "done"
    /\ req["w1"].op = "edit_user"
    /\ req["w1"].user_id = 4
    /\ req["w1"].target_userid = 4
    /\ req["w1"].user_role = "staff"
    /\ req["w1"].session_token = "tok4"
    /\ LiveSession("tok4", 4, "staff")
    /\ req["w1"].update_dict = [full_name |-> "A", user_role |-> "superuser"]
    /\ resp["w1"].success = FALSE
    /\ resp["w1"].messages = MsgExtra
    /\ users[4].user_role = "staff"

\* C3 as claimed: an edit of one's own record that names a field outside
\* {full_name, email} always fails (according to the claim with the message
\* "extra elements in update_dict not allowed"), for every role including
\* superuser.
C3_AsClaimed ==
    [][\A w \in Workers :
         (/\ Starts(w)
          /\ req'[w].op = "edit_user"
          /\ req'[w].target_userid = req'[w].user_id
          /\ DOMAIN req'[w].update_dict \ {"full_name", "email"} # {})
         => Denied(w)]_vars

\* C3 amended: an edit of one's own record that names a field outside
\* {full_name, email} fails and changes no row whenever the role is not
\* superuser; the failure is the field message when the role is staff or
\* authenticated and the session is live for (user_id, user_role); a
\* superuser with a live session gets the field message only for a field
\* outside the five superuser fields.
C3_SelfEditFieldLimit ==
    [][\A w \in Workers :
         (/\ Starts(w)
          /\ req'[w].op = "edit_user"
          /\ req'[w].target_userid = req'[w].user_id
          /\ DOMAIN req'[w].update_dict \ {"full_name", "email"} # {})
         => /\ req'[w].user_role # "superuser"
               => (Denied(w) /\ users' = users)
            /\ (/\ req'[w].user_role \in {"staff", "authenticated"}
                /\ LiveSession(req'[w].session_token, req'[w].user_id,
                               req'[w].user_role))
               => (Denied(w) /\ resp'[w].messages = MsgExtra)
            /\ (/\ req'[w].user_role = "superuser"
                /\ LiveSession(req'[w].session_token, req'[w].user_id,
                               "superuser")
                /\ DOMAIN req'[w].update_dict \
                     {"full_name", "email", "is_active", "user_role",
                      "email_verified"} # {})
               => (Denied(w) /\ resp'[w].messages = MsgExtra
                   /\ users' = users)]_vars

\* user 4, made superuser, was refused the edit of created_on on their own
\* record while their session was live
C3_Witness ==
    /\ pc["w1"] = "done"
    /\ req["w1"].op = "edit_user"
    /\ req["w1"].user_id = 4
    /\ req["w1"].target_userid = 4
    /\ req["w1"].user_role = "superuser"
    /\ req["w1"].session_token = "tok4"
    /\ LiveSession("tok4", 4, "superuser")
    /\ req["w1"].update_dict = [created_on |-> 1]
    /\ resp["w1"].success = FALSE
    /\ resp["w1"].messages = MsgExtra

\* C4 as claimed: an edit whose role is not superuser and whose target is
\* another user, or whose role is locked or unrecognized, always fails with
\* the default-deny message and changes no row.
C4_AsClaimed ==
    [][\A w \in Workers :
         (/\ Starts(w)
          /\ req'[w].op = "edit_user"
          /\ \/ /\ req'[w].user_role # "superuser"
                /\ req'[w].target_userid # req'[w].user_id
             \/ req'[w].user_role \notin
                   {"superuser", "staff", "authenticated"})
         => (/\ Denied(w)
             /\ resp'[w].messages = MsgEditOther
             /\ users' = users)]_vars

\* C4 amended: such an edit always fails and changes no row, also with a
\* live session; the failure is the default-deny message when the target is
\* not reserved and the reserved-account message when the target is 2 or 3.
C4_DefaultDeny ==
    [][\A w \in Workers :
         (/\ Starts(w)
          /\ req'[w].op = "edit_user"
          /\ \/ /\ req'[w].user_role # "superuser"
                /\ req'[w].target_userid # req'[w].user_id
             \/ req'[w].user_role \notin
                   {"superuser", "staff", "authenticated"})
         => (/\ Denied(w)
             /\ resp'[w].messages = IF req'[w].target_userid \in {2, 3}
                                    THEN MsgReserved
                                    ELSE MsgEditOther
             /\ users' = users)]_vars

\* user 1, authenticated after a lock and an unlock and with a live
\* session, was refused the edit of the name of user 4
C4_Witness ==
    /\ pc["w1"] = "done"
    /\ req["w1"].op = "edit_user"
    /\ req["w1"].user_id = 1
    /\ req["w1"].user_role = "authenticated"
    /\ req["w1"].session_token = "tok1"
    /\ LiveSession("tok1", 1, "authenticated")
    /\ req["w1"].target_userid = 4
    /\ req["w1"].update_dict = [full_name |-> "A", email |-> "a@x.org"]
    /\ resp["w1"].success = FALSE
    /\ resp["w1"].messages = MsgEditOther

\* C5: an edit reaches its update only if, when its check ran, the session
\* token resolved to a session bound to user_id whose account was active
\* and held user_role; and an edit changes the users table only in that
\* update.
C5_EditNeedsLiveSession ==
    [][\A w \in Workers :
         /\ (/\ Starts(w)
             /\ req'[w].op = "edit_user"
             /\ pc'[w] # "done")
            => LiveSession(req'[w].session_token, req'[w].user_id,
                           req'[w].user_role)
         /\ (/\ pc'[w] # pc[w]
             /\ req[w].op = "edit_user"
             /\ users' # users)
            => pc[w] = "edit_update"]_vars

\* a staff user changed their own name and e-mail address
C5_Witness ==
    /\ pc["w1"] = "done"
    /\ req["w1"].op = "edit_user"
    /\ req["w1"].user_id = 4
    /\ req["w1"].user_role = "staff"
    /\ req["w1"].target_userid = 4
    /\ resp["w1"].success = TRUE
    /\ users[4].full_name = "A"
    /\ users[4].email = "a@x.org"

\* C6: a toggle_user_lock request whose role is not superuser, or whose
\* session is not live for (user_id, superuser), fails at once and leaves
\* the users and sessions tables unchanged; a toggle_user_lock that changes
\* either table has the superuser role and passed the session check.
C6_ToggleNeedsSuperuserSession ==
    [][\A w \in Workers :
         /\ (/\ Starts(w)
             /\ req'[w].op = "toggle_user_lock"
             /\ ~ (/\ req'[w].user_role = "superuser"
                   /\ LiveSession(req'[w].session_token, req'[w].user_id,
                                  "superuser")))
            => (Denied(w) /\ users' = users /\ sessions' = sessions)
         /\ (/\ pc'[w] # pc[w]
             /\ req[w].op = "toggle_user_lock"
             /\ (users' # users \/ sessions' # sessions))
            => (/\ pc[w] \in {"lock_update", "lock_delete"}
                /\ req[w].user_role = "superuser"
                /\ session_info[w] # <<>>
                /\ session_info[w][1].is_active = TRUE
                /\ session_info[w][1].user_id = req[w].user_id
                /\ session_info[w][1].user_role = "superuser")]_vars

\* a superuser locked user 4
C6_Witness ==
    /\ pc["w1"] = "done"
    /\ req["w1"].op = "toggle_user_lock"
    /\ req["w1"].user_role = "superuser"
    /\ req["w1"].target_userid = 4
    /\ req["w1"].action = "lock"
    /\ resp["w1"].success = TRUE
    /\ IsLocked(4)
    /\ SessionsOf(4) = {}

\* C7: when a lock has returned success the target row has is_active=false
\* and user_role=locked; when an unlock has returned success it has
\* is_active=true and user_role=authenticated, whatever the row held before.
C7_LockUnlockRow ==
    \A w \in Workers :
       (/\ pc[w] = "done"
        /\ req[w].op \in LockOps
        /\ resp[w].success = TRUE)
       => /\ req[w].target_userid \in DOMAIN users
          /\ req[w].action = "lock"
             => (/\ users[req[w].target_userid].is_active = FALSE
                 /\ users[req[w].target_userid].user_role = "locked")
          /\ req[w].action = "unlock"
             => (/\ users[req[w].target_userid].is_active = TRUE
                 /\ users[req[w].target_userid].user_role = "authenticated")

\* user 1, created as superuser, is authenticated after an unlock
C7_Witness ==
    /\ pc["w1"] = "done"
    /\ req["w1"].op \in LockOps
    /\ req["w1"].action = "unlock"
    /\ req["w1"].target_userid = 1
    /\ resp["w1"].success = TRUE
    /\ InitUsers[1].user_role = "superuser"
    /\ users[1].user_role = "authenticated"
    /\ users[1].is_active = TRUE

\* C8 as claimed: while the row of a user is locked (is_active=false,
\* user_role=locked), every edit_user, toggle_user_lock and
\* issue_new_apikey request that presents a session bound to that user
\* fails, also while the session is still in the sessions table.
C8_AsClaimed ==
    [][\A w \in Workers :
         (/\ Starts(w)
          /\ req'[w].op \in {"edit_user", "toggle_user_lock",
                             "issue_new_apikey"}
          /\ req'[w].session_token \in DOMAIN sessions
          /\ IsLocked(sessions[req'[w].session_token].user_id))
         => Denied(w)]_vars

C10_LockNotRolledBack ==
    \A w \in Workers :
       (/\ pc[w] = "done"
        /\ req[w].op \in LockOps
        /\ req[w].action = "lock"
        /\ delres[w] \in {"failed", "raised"}
        /\ req[w].target_userid \in DOMAIN users)
       => IsLocked(req[w].target_userid)

\* the lock of user 4 returned failure because the session deletion
\* raised; the session is still there and the row is locked
C10_Witness ==
    /\ pc["w1"] = "done"
    /\ req["w1"].op \in LockOps
    /\ req["w1"].action = "lock"
    /\ req["w1"].target_userid = 4
    /\ delres["w1"] = "raised"
    /\ resp["w1"].success = FALSE
    /\ "tok4" \in DOMAIN sessions
    /\ IsLocked(4)
\* C11: internal_toggle_user_lock takes no actor id, role or session: a
\* request for a target other than 2 and 3 goes on to the update whatever the
\* sessions table holds, the update writes the lock or unlock values into the
\* target row only, a lock whose session deletion ran leaves the target
\* without sessions, and the request of an existing target succeeds unless
\* the deletion raised; a request for target 2 or 3 fails with the
\* reserved-target message and changes nothing.
C11_InternalLockUnchecked ==
    [][\A w \in Workers :
         /\ (Starts(w) /\ req'[w].op = "internal_toggle_user_lock")
            => /\ DOMAIN req'[w] = {"op", "target_userid", "action"}
               /\ IF req'[w].target_userid \in {2, 3}
                  THEN /\ Denied(w)
                       /\ resp'[w].messages = MsgReserved
                       /\ users' = users /\ sessions' = sessions
                  ELSE pc'[w] = "lock_update"
         /\ (/\ pc[w] = "lock_update" /\ pc'[w] # "lock_update"
             /\ req[w].op = "internal_toggle_user_lock")
            => \A i \in DOMAIN users :
                 IF i = req[w].target_userid
                 THEN /\ users'[i].is_active = (req[w].action = "unlock")
                      /\ users'[i].user_role =
                            (IF req[w].action = "lock" THEN "locked"
                             ELSE "authenticated")
                      /\ users'[i].email = users[i].email
                      /\ users'[i].full_name = users[i].full_name
                 ELSE users'[i] = users[i]
         /\ (/\ pc[w] = "lock_delete" /\ pc'[w] = "done"
             /\ req[w].op = "internal_toggle_user_lock")
            => /\ delres'[w] = "deleted"
                  => /\ \A t \in DOMAIN sessions' :
                          sessions'[t].user_id # req[w].target_userid
                     /\ \A t \in DOMAIN sessions :
                          sessions[t].user_id # req[w].target_userid
                          => (t \in DOMAIN sessions'
                              /\ sessions'[t] = sessions[t])
               /\ (delres'[w] # "raised"
                   /\ req[w].target_userid \in DOMAIN users)
                  => resp'[w].success = TRUE
         /\ (/\ pc[w] = "lock_select" /\ pc'[w] = "done"
             /\ req[w].op = "internal_toggle_user_lock"
             /\ req[w].target_userid \in DOMAIN users)
            => resp'[w].success = TRUE]_vars

\* the internal entry point locked user 1, the only superuser, and removed
\* its session, with no actor or session in the request
C11_Witness ==
    /\ pc["w1"] = "done"
    /\ req["w1"].op = "internal_toggle_user_lock"
    /\ req["w1"].target_userid = 1
    /\ req["w1"].action = "lock"
    /\ resp["w1"].success = TRUE
    /\ delres["w1"] = "deleted"
    /\ IsLocked(1)
    /\ SessionsOf(1) = {}
    /\ SessionsOf(4) # {}


\* C12 as claimed: an issue_new_apikey request gets past the session check,
\* and a row is added to the apikeys table, only if the session token is in
\* the sessions table, the account it is bound to is active, and the user_id,
\* ip_address, user_agent and role of the session equal those of the request.
C12_AsClaimed ==
    [][\A w \in Workers :
         /\ (/\ Starts(w)
             /\ req'[w].op = "issue_new_apikey"
             /\ ~Denied(w))
            => /\ LiveSession(req'[w].session_token, req'[w].user_id,
                              req'[w].user_role)
               /\ sessions[req'[w].session_token].ip_address
                     = req'[w].ip_address
               /\ sessions[req'[w].session_token].user_agent
                     = req'[w].user_agent
         /\ (Starts(w) /\ req'[w].op = "issue_new_apikey" /\ Denied(w))
            => apikeys' = apikeys]_vars


\* the stored key the claim set d names: token, user_id and role agree
KeyOf(k, d) ==
    /\ k.apikey = d.tkn
    /\ k.user_id = d.uid
    /\ k.user_role = d.rol

\* a key issued with not_valid_before=0 and a positive expires_days
ImmediateKey(k) == k.not_valid_before = k.issued /\ k.expires > k.issued

\* C13 as claimed: a key issued with not_valid_before=0 and a positive
\* expires_days verifies as valid when verify_apikey gets its unmodified
\* claims at the clock reading of the issue, no time having elapsed.
C13_AsClaimed ==
    [][\A w \in Workers :
         (/\ Starts(w)
          /\ req'[w].op = "verify_apikey"
          /\ \E k \in apikeys :
               KeyOf(k, req'[w]) /\ ImmediateKey(k) /\ now = k.issued)
         => resp'[w].success = TRUE]_vars

\* C13: a key issued with not_valid_before=0 and a positive expires_days
\* verifies as valid with its unmodified claims once the clock reads later
\* than at the issue and earlier than expires.
C13_ValidOnceClockMoved ==
    [][\A w \in Workers :
         (/\ Starts(w)
          /\ req'[w].op = "verify_apikey"
          /\ \E k \in apikeys :
               /\ KeyOf(k, req'[w]) /\ ImmediateKey(k)
               /\ k.issued < now /\ now < k.expires)
         => resp'[w].success = TRUE]_vars

\* a key issued for immediate use was verified one tick after its issue
C13_Witness ==
    /\ pc["w1"] = "done"
    /\ req["w1"].op = "verify_apikey"
    /\ resp["w1"].success = TRUE
    /\ \E k \in apikeys :
         KeyOf(k, req["w1"]) /\ ImmediateKey(k) /\ now = k.issued + 1


\* C14: verify_apikey returns success exactly when the apikeys table holds
\* a row whose apikey equals the presented token, whose user_id and
\* user_role equal the presented ones, and for which, at the clock of the
\* request, expires > now, issued < now and not_valid_before < now.
C14_ValidIffStoredAndInWindow ==
    [][\A w \in Workers :
         (Starts(w) /\ req'[w].op = "verify_apikey")
         => /\ pc'[w] = "done"
            /\ resp'[w].success =
                 (\E k \in apikeys :
                    /\ k.apikey = req'[w].tkn
                    /\ k.user_id = req'[w].uid
                    /\ k.user_role = req'[w].rol
                    /\ k.expires > now
                    /\ k.issued < now
                    /\ k.not_valid_before < now)]_vars

\* a claim set with the token and user_id of a stored key that is within
\* its validity window, but with another role, was refused
C14_Witness ==
    /\ pc["w1"] = "done"
    /\ req["w1"].op = "verify_apikey"
    /\ resp["w1"].success = FALSE
    /\ \E k \in apikeys :
         /\ k.apikey = req["w1"].tkn
         /\ k.user_id = req["w1"].uid
         /\ k.user_role # req["w1"].rol
         /\ k.issued < now /\ k.not_valid_before < now /\ now < k.expires


\* C15: verify_apikey never returns success for the token of a stored key
\* at a clock reading outside [not_valid_before, expires) of that key: not
\* before not_valid_before, and not at expires or later; the clock never
\* runs backwards and stored keys keep their window, so a key that has
\* reached expires stays invalid.
C15_InvalidOutsideWindow ==
    [][/\ now' >= now
       /\ \A k \in apikeys : k \in apikeys'
       /\ \A w \in Workers :
            (/\ Starts(w)
             /\ req'[w].op = "verify_apikey"
             /\ \E k \in apikeys :
                  /\ k.apikey = req'[w].tkn
                  /\ (now < k.not_valid_before \/ now >= k.expires))
            => resp'[w].success = FALSE]_vars

\* the claims of a key that was issued with a positive expires_days were
\* refused with the clock at its expires
C15_Witness ==
    /\ pc["w1"] = "done"
    /\ req["w1"].op = "verify_apikey"
    /\ resp["w1"].success = FALSE
    /\ \E k \in apikeys :
         /\ KeyOf(k, req["w1"])
         /\ k.expires = k.issued + DayTicks
         /\ now = k.expires


\* C16 as claimed: whatever the apikeys table holds, the claims of a stored
\* key with the token changed to any other value never verify as valid.
C16_AsClaimed ==
    [][\A w \in Workers :
         (/\ Starts(w)
          /\ req'[w].op = "verify_apikey"
          /\ \E k \in apikeys :
               /\ k.user_id = req'[w].uid
               /\ k.user_role = req'[w].rol
               /\ k.apikey # req'[w].tkn)
         => resp'[w].success = FALSE]_vars

\* C16: the claims of a stored key with the token changed to a value that
\* is not the apikey of a stored row of the same user_id and user_role never
\* verify as valid.
C16_ChangedTokenInvalid ==
    [][\A w \in Workers :
         (/\ Starts(w)
          /\ req'[w].op = "verify_apikey"
          /\ \E k \in apikeys :
               /\ k.user_id = req'[w].uid
               /\ k.user_role = req'[w].rol
               /\ k.apikey # req'[w].tkn
          /\ \A k \in apikeys :
               (k.user_id = req'[w].uid /\ k.user_role = req'[w].rol)
               => k.apikey # req'[w].tkn)
         => resp'[w].success = FALSE]_vars

\* claims with the user_id and role of a stored key that is within its
\* validity window, and a token no stored key has, were refused
C16_Witness ==
    /\ pc["w1"] = "done"
    /\ req["w1"].op = "verify_apikey"
    /\ resp["w1"].success = FALSE
    /\ \A k \in apikeys : k.apikey # req["w1"].tkn
    /\ \E k \in apikeys :
         /\ k.user_id = req["w1"].uid
         /\ k.user_role = req["w1"].rol
         /\ k.issued = 0 /\ k.not_valid_before = 0 /\ k.expires = DayTicks
         /\ now = 1


\* C17: in every state in which the workers await a request, two
\* verify_apikey requests that agree on token, user_id and role get the same
\* result, whatever their other claim fields (the self-reported exp) say.
C17_AdvisoryFieldsIgnored ==
    (\A v \in Workers : pc[v] = "idle")
    => \A w \in Workers : \A r1, r2 \in VerifyRequests :
         (r1.tkn = r2.tkn /\ r1.uid = r2.uid /\ r1.rol = r2.rol)
         => ((ENABLED (VerifyApikey(w, r1) /\ resp'[w].success = TRUE))
             <=> (ENABLED (VerifyApikey(w, r2) /\ resp'[w].success = TRUE)))

\* claims that report an exp the stored key does not have were accepted
C17_Witness ==
    /\ pc["w1"] = "done"
    /\ req["w1"].op = "verify_apikey"
    /\ resp["w1"].success = TRUE
    /\ \E k \in apikeys :
         KeyOf(k, req["w1"]) /\ ToString(k.expires) # req["w1"].exp


\* C18: every verify_apikey request that does not succeed gets the same
\* response, success False with the one message "API key could not be
\* verified." and nothing else, whatever made the claims invalid.
C18_OneFailureResponse ==
    \A w \in Workers :
       (/\ pc[w] = "done"
        /\ req[w].op = "verify_apikey"
        /\ resp[w].success = FALSE)
       => resp[w] = [success |-> FALSE,
                     messages |-> "API key could not be verified."]

\* claims with the token, user_id and role of a stored key were refused
\* (the key was outside its validity window) with the fixed response
C18_Witness ==
    /\ pc["w1"] = "done"
    /\ req["w1"].op = "verify_apikey"
    /\ resp["w1"].success = FALSE
    /\ resp["w1"].messages = "API key could not be verified."
    /\ \E k \in apikeys : KeyOf(k, req["w1"])


\* C19: when issue_new_apikey returns success, the apikeys table has gained
\* a row whose apikey is the returned token, whose user_id, user_role and
\* session_token are those of the request and whose issued, expires and
\* not_valid_before are the iat, exp and nbf of the returned claims; when
\* the insert did not complete, or the request was refused, no token is
\* returned and the table is unchanged.
C19_ReturnedKeyIsStored ==
    [][\A w \in Workers :
         /\ (pc[w] = "issue_insert" /\ pc'[w] = "done")
            => IF resp'[w].success = TRUE
               THEN /\ Len(resp'[w].apikey) = 1
                    /\ \E k \in apikeys' \ apikeys :
                         /\ k.apikey = resp'[w].apikey[1].tkn
                         /\ k.user_id = req[w].user_id
                         /\ k.user_role = req[w].user_role
                         /\ k.session_token = req[w].session_token
                         /\ resp'[w].apikey[1].iat = ToString(k.issued)
                         /\ resp'[w].apikey[1].exp = ToString(k.expires)
                         /\ resp'[w].apikey[1].nbf
                               = ToString(k.not_valid_before)
                         /\ resp'[w].apikey[1].uid = req[w].user_id
                         /\ resp'[w].apikey[1].rol = req[w].user_role
               ELSE /\ apikeys' = apikeys
                    /\ resp'[w].apikey = <<>>
         /\ (Starts(w) /\ req'[w].op = "issue_new_apikey")
            => /\ apikeys' = apikeys
               /\ pc'[w] = "done"
                  => (resp'[w].success = FALSE /\ resp'[w].apikey = <<>>)]_vars

\* a key with a delayed start was returned and its row is in the table
C19_Witness ==
    /\ pc["w1"] = "done"
    /\ req["w1"].op = "issue_new_apikey"
    /\ req["w1"].not_valid_before = 1
    /\ resp["w1"].success = TRUE
    /\ \E k \in apikeys :
         /\ k.apikey = resp["w1"].apikey[1].tkn
         /\ k.not_valid_before = k.issued + 1
         /\ resp["w1"].apikey[1].nbf = ToString(k.not_valid_before)
         /\ k.session_token = "tok4"


\* C20: list_users with user_id None returns every row of the users table,
\* in strictly ascending user_id order; with a user_id it returns the row of
\* that user if the table has one and no row otherwise; in both cases it
\* leaves the users, sessions and apikeys tables as they were.
C20_ListAscendingAndReadOnly ==
    [][\A w \in Workers :
         (Starts(w) /\ req'[w].op = "list_users")
         => LET u == resp'[w].user_info
            IN  /\ pc'[w] = "done"
                /\ resp'[w].success = TRUE
                /\ users' = users /\ sessions' = sessions
                /\ apikeys' = apikeys
                /\ \A n \in 1..Len(u) :
                     /\ u[n].user_id \in DOMAIN users
                     /\ \A f \in DOMAIN u[n] :
                          u[n][f] = users[u[n].user_id][f]
                /\ \A n \in 1..(Len(u) - 1) :
                     u[n].user_id < u[n + 1].user_id
                /\ IF req'[w].user_id = <<>>
                   THEN {u[n].user_id : n \in 1..Len(u)} = DOMAIN users
                   ELSE /\ Len(u) <= 1
                        /\ {u[n].user_id : n \in 1..Len(u)}
                             = DOMAIN users \cap {req'[w].user_id[1]}]_vars

\* all four users were listed, in order, after user 4 had been renamed
C20_Witness ==
    /\ pc["w1"] = "done"
    /\ req["w1"].op = "list_users"
    /\ req["w1"].user_id = <<>>
    /\ Len(resp["w1"].user_info) = 4
    /\ resp["w1"].user_info[1].user_id = 1
    /\ resp["w1"].user_info[4].user_id = 4
    /\ resp["w1"].user_info[4].full_name = "A"
    /\ users[4].full_name = "A"


\* C21 as claimed: an edit is one atomic step with respect to the other
\* worker, so the user_info a successful edit_user returns holds, for every
\* field the edit wrote, the value it wrote.
C21_AsClaimed ==
    \A w \in Workers :
       (/\ pc[w] = "done"
        /\ req[w].op = "edit_user"
        /\ resp[w].success = TRUE)
       => \A f \in DOMAIN req[w].update_dict \cap DOMAIN resp[w].user_info[1] :
            resp[w].user_info[1][f] = req[w].update_dict[f]


\* C22: the apikeys table is append-only: every step keeps every row, and a
\* step adds a row only as the insert of an issue_new_apikey that returns
\* success; and verify_apikey accepts the claims of a stored key inside its
\* time window whatever the users and sessions tables then hold, so also
\* after the owner was locked or edited and the session of the key deleted.
C22_KeysSurviveAccountChanges ==
    [][/\ \A k \in apikeys : k \in apikeys'
       /\ apikeys' # apikeys
          => /\ Cardinality(apikeys') = Cardinality(apikeys) + 1
             /\ \E w \in Workers :
                  /\ pc[w] = "issue_insert" /\ pc'[w] = "done"
                  /\ req[w].op = "issue_new_apikey"
                  /\ resp'[w].success = TRUE
       /\ \A w \in Workers :
            (/\ Starts(w)
             /\ req'[w].op = "verify_apikey"
             /\ \E k \in apikeys :
                  /\ KeyOf(k, req'[w])
                  /\ k.issued < now /\ k.not_valid_before < now
                  /\ now < k.expires)
            => resp'[w].success = TRUE]_vars

\* a key issued to user 4 as staff was accepted while user 4 is locked and
\* the session the key was issued under is gone
C22_Witness ==
    /\ pc["w1"] = "done"
    /\ req["w1"].op = "verify_apikey"
    /\ resp["w1"].success = TRUE
    /\ IsLocked(4)
    /\ SessionsOf(4) = {}
    /\ \E k \in apikeys :
         /\ KeyOf(k, req["w1"])
         /\ k.user_id = 4 /\ k.user_role = "staff"
         /\ k.session_token \notin DOMAIN sessions
         /\ now < k.expires


\* C23: issue_new_apikey does not compare not_valid_before with expires: a
\* request with a live session that matches in user_id, role, ip_address
\* and user_agent goes on to the insert whatever its expires_days and
\* not_valid_before, a successful issue with expires_days = 0 stores a key
\* with not_valid_before >= expires, and verify_apikey never accepts the
\* token of a stored key with not_valid_before >= expires.
C23_UnusableKeyIssued ==
    [][\A w \in Workers :
         /\ (/\ Starts(w)
             /\ req'[w].op = "issue_new_apikey"
             /\ LiveSession(req'[w].session_token, req'[w].user_id,
                            req'[w].user_role)
             /\ sessions[req'[w].session_token].ip_address
                   = req'[w].ip_address
             /\ sessions[req'[w].session_token].user_agent
                   = req'[w].user_agent)
            => pc'[w] = "issue_insert"
         /\ (/\ pc[w] = "issue_insert" /\ pc'[w] = "done"
             /\ resp'[w].success = TRUE
             /\ req[w].expires_days <= 0)
            => \E k \in apikeys' \ apikeys :
                 /\ k.not_valid_before >= k.expires
                 /\ k.apikey = resp'[w].apikey[1].tkn
         /\ (/\ Starts(w)
             /\ req'[w].op = "verify_apikey"
             /\ \E k \in apikeys :
                  /\ k.apikey = req'[w].tkn
                  /\ k.not_valid_before >= k.expires)
            => resp'[w].success = FALSE]_vars

\* the claims of a stored key with not_valid_before >= expires were refused
\* after its not_valid_before had passed
C23_Witness ==
    /\ pc["w1"] = "done"
    /\ req["w1"].op = "verify_apikey"
    /\ resp["w1"].success = FALSE
    /\ \E k \in apikeys :
         /\ KeyOf(k, req["w1"])
         /\ k.not_valid_before >= k.expires
         /\ k.not_valid_before > k.issued
         /\ now > k.not_valid_before


\* C24: an edit_user request of a superuser with a live session, for a
\* target other than 2 and 3 and fields the superuser may edit, that asks
\* for a user_role outside superuser, staff, authenticated, locked fails
\* with the unknown-role message and leaves the users table unchanged; and
\* in every state the user_role of every user other than 2 and 3 is one of
\* these four.
C24_OnlyKnownRoles ==
    [][/\ \A i \in DOMAIN users' \ {2, 3} :
            users'[i].user_role
               \in {"superuser", "staff", "authenticated", "locked"}
       /\ \A w \in Workers :
            (/\ Starts(w)
             /\ req'[w].op = "edit_user"
             /\ req'[w].target_userid \notin {2, 3}
             /\ req'[w].user_role = "superuser"
             /\ LiveSession(req'[w].session_token, req'[w].user_id,
                            "superuser")
             /\ DOMAIN req'[w].update_dict
                  \subseteq {"full_name", "email", "is_active", "user_role",
                             "email_verified"}
             /\ "user_role" \in DOMAIN req'[w].update_dict
             /\ req'[w].update_dict.user_role
                  \notin {"superuser", "staff", "authenticated", "locked"})
            => /\ Denied(w)
               /\ resp'[w].messages
                    = "unknown role change request in update_dict"
               /\ users' = users]_vars

\* the superuser, with a live session, was refused the role admin for user 4
C24_Witness ==
    /\ pc["w1"] = "done"
    /\ req["w1"].op = "edit_user"
    /\ req["w1"].user_id = 1
    /\ req["w1"].user_role = "superuser"
    /\ req["w1"].session_token = "tok1"
    /\ LiveSession("tok1", 1, "superuser")
    /\ req["w1"].target_userid = 4
    /\ req["w1"].update_dict = [user_role |-> "admin"]
    /\ resp["w1"].success = FALSE
    /\ resp["w1"].messages = "unknown role change request in update_dict"
    /\ users[4].user_role # "admin"


\* the messages edit_user returns when the session look-up does not match
SessionInvalidMessages ==
    {"User session info not available for this user edit attempt.",
     "Superuser session info not available for this user edit attempt."}

\* C25 as claimed: an edit_user request for a target other than 2 and 3
\* whose session is not live for its user_id and role fails with a
\* session message, whatever its role, target and fields.
C25_AsClaimed ==
    [][\A w \in Workers :
         (/\ Starts(w)
          /\ req'[w].op = "edit_user"
          /\ req'[w].target_userid \notin {2, 3}
          /\ ~LiveSession(req'[w].session_token, req'[w].user_id,
                          req'[w].user_role))
         => (Denied(w) /\ resp'[w].messages \in SessionInvalidMessages)]_vars

\* C25: edit_user checks the reserved target first, then which path the
\* role and the target select, then the session, then the fields: a request
\* for target 2 or 3 gets the reserved-target message; a request for another
\* target whose session is not live gets the session message of its path when
\* it is a self-edit of an authenticated or staff user or an edit by a
\* superuser, whatever its fields, and the default-deny message otherwise;
\* the field and role-value messages are returned only to requests whose
\* session is live.
C25_CheckOrder ==
    [][\A w \in Workers :
         (Starts(w) /\ req'[w].op = "edit_user")
         => LET r == req'[w]
                live == LiveSession(r.session_token, r.user_id, r.user_role)
                self == /\ r.target_userid = r.user_id
                        /\ r.user_role \in {"authenticated", "staff"}
            IN  /\ r.target_userid \in {2, 3}
                   => (Denied(w) /\ resp'[w].messages =
                         "Editing anonymous/locked user accounts not allowed.")
                /\ (r.target_userid \notin {2, 3} /\ ~live)
                   => /\ Denied(w)
                      /\ resp'[w].messages =
                           IF self
                           THEN "User session info not available for this user edit attempt."
                           ELSE IF r.user_role = "superuser"
                           THEN "Superuser session info not available for this user edit attempt."
                           ELSE "user_id or session info not available for this user edit attempt."
                /\ (/\ Denied(w)
                    /\ resp'[w].messages
                         \in {"extra elements in update_dict not allowed",
                              "unknown role change request in update_dict"})
                   => (live /\ r.target_userid \notin {2, 3})]_vars

\* a superuser request without a session in the table, asking for a field
\* nobody may edit, was refused with the session message
C25_Witness ==
    /\ pc["w1"] = "done"
    /\ req["w1"].op = "edit_user"
    /\ req["w1"].user_role = "superuser"
    /\ req["w1"].session_token = "nosuch"
    /\ req["w1"].target_userid = 4
    /\ req["w1"].update_dict = [created_on |-> 1]
    /\ resp["w1"].success = FALSE
    /\ resp["w1"].messages \in SessionInvalidMessages


C27_MissingTargetFails ==
    [][\A w \in Workers :
         /\ (pc[w] \in {"edit_update", "lock_update"} /\ pc'[w] # pc[w])
            => DOMAIN users' = DOMAIN users
         /\ (/\ pc[w] \in {"edit_select", "lock_select", "lock_delete"}
             /\ pc'[w] = "done"
             /\ req[w].op \in AdminOps)
            => /\ DOMAIN users' = DOMAIN users
               /\ req[w].target_userid \notin DOMAIN users
                  => /\ resp'[w].success = FALSE
                     /\ resp'[w].user_info = <<>>
               /\ resp'[w].success = TRUE
                  => /\ req[w].target_userid \in DOMAIN users
                     /\ Len(resp'[w].user_info) = 1
                     /\ resp'[w].user_info[1].user_id = req[w].target_userid]_vars

\* the superuser, with a live session, edited user 6, who does not exist:
\* the update and the select ran, the answer is "User update failed." and
\* the table still has no row 6
C27_Witness ==
    /\ pc["w1"] = "done"
    /\ req["w1"].op = "edit_user"
    /\ req["w1"].user_role = "superuser"
    /\ req["w1"].target_userid = 6
    /\ LiveSession(req["w1"].session_token, req["w1"].user_id, "superuser")
    /\ resp["w1"].success = FALSE
    /\ resp["w1"].user_info = <<>>
    /\ resp["w1"].messages = MsgEditFail
    /\ 6 \notin DOMAIN users

====
